---- MODULE Spec2Model ----
(***************************************************************************)
(* Model of the workflow executor: TaskQueue (oop.ts) and the functional   *)
(* variant (initializeWorkflow / next / runAll).  One tick of              *)
(* TaskQueue.next() is split at its three program points: the completion   *)
(* pass, each iteration of the admission loop, and the loop exit with the  *)
(* time advance.  The functional variant runs beside it on the same input, *)
(* one call of its next() per tick.                                        *)
(***************************************************************************)
EXTENDS Integers, Sequences, FiniteSets, TLC

\* ---------------------------------------------------------------- bounds
\* longest generated task list
MaxTasks == 2
\* largest generated duration (durations range over 0..MaxTime)
MaxTime == 2
\* the tick counter saturates at (sum of durations) + TickSlack
TickSlack == 2

\* ---------------------------------------------------------------- inputs
\* startTime / endTime of a task that has not started / completed (null)
Null == -1

\* ids of the generated task lists, in declaration order
IdName == <<"A", "B", "C", "D", "E", "F", "G", "H">>

\* ids a generated task may name as a dependency: on a list shorter than
\* MaxTasks some of them are not declared
DepIds == {IdName[i] : i \in 1..MaxTasks}

Times == 0..MaxTime

\* the generated task list of length n with durations and dependencies f
Generated(n, f) ==
    [i \in 1..n |-> [id |-> IdName[i], time |-> f[i][1], deps |-> f[i][2]]]

Choices(n) == [1..n -> Times \X SUBSET DepIds]

\* the example of the functional variant, run with maxConcurrent = 2
tasks_2 ==
    << [id |-> "A", time |-> 3, deps |-> {}],
       [id |-> "B", time |-> 2, deps |-> {"A"}],
       [id |-> "C", time |-> 1, deps |-> {"A"}],
       [id |-> "D", time |-> 4, deps |-> {"B", "C"}],
       [id |-> "E", time |-> 1, deps |-> {"D"}] >>

\* the example of the object-oriented variant, run with maxConcurrent = 3
tasks ==
    << [id |-> "A", time |-> 3, deps |-> {}],
       [id |-> "Y", time |-> 3, deps |-> {}],
       [id |-> "B", time |-> 2, deps |-> {"A"}],
       [id |-> "C", time |-> 1, deps |-> {"A"}],
       [id |-> "Z", time |-> 2, deps |-> {"A"}],
       [id |-> "D", time |-> 4, deps |-> {"B", "C"}],
       [id |-> "E", time |-> 1, deps |-> {"D"}] >>

Examples == {tasks_2, tasks}

\* concurrency limits tried with a task list: the constructor takes any number
Limits(ts) == (-1..MaxTasks) \cup {Len(ts)}

\* ---------------------------------------------------------------- state
VARIABLES
    nodes,          \* Map<string, TaskNode> as the sequence of its values in insertion order
    currentTime,
    runningTasks,   \* Set<string> as the sequence of its members in insertion order
    maxConcurrent,
    pc,             \* "next": runAll is about to call next(); "start": next() is at its
                    \* admission loop; "done": next() returned false, runAll printed the summary
    ticks,          \* calls of next() made so far (saturating, see TickCap)
    log,            \* the console.log lines of next(): <<"Started" | "Completed", id, time>>
    fstate          \* the functional variant run side by side: the WorkflowState of
                    \* runAll's loop, its shouldContinue and its console.log lines

vars == <<nodes, currentTime, runningTasks, maxConcurrent, pc, ticks, log, fstate>>

\* ---------------------------------------------------------------- helpers
TaskNode(task) ==
    [id |-> task.id, time |-> task.time, deps |-> task.deps,
     status |-> "pending", startTime |-> Null, endTime |-> Null]

Has(ns, taskId) == \E i \in 1..Len(ns) : ns[i].id = taskId

Get(ns, taskId) == ns[CHOOSE i \in 1..Len(ns) : ns[i].id = taskId]

\* Map.set: a new key is appended, an existing key keeps its position
MapSet(ns, node) ==
    IF Has(ns, node.id)
    THEN [i \in 1..Len(ns) |-> IF ns[i].id = node.id THEN node ELSE ns[i]]
    ELSE Append(ns, node)

RECURSIVE Constructor(_)
Constructor(ts) ==
    IF ts = <<>> THEN <<>>
    ELSE MapSet(Constructor(SubSeq(ts, 1, Len(ts) - 1)), TaskNode(ts[Len(ts)]))

isDependencyCompleted(ns, depId) ==
    Has(ns, depId) /\ Get(ns, depId).status = "completed"

\* canStartTask with the dependency test dropped
canStartTask_NoDeps(ns, taskId) ==
    /\ Has(ns, taskId)
    /\ Get(ns, taskId).status = "pending"

\* canStartTask with the status test dropped
canStartTask_NoStatus(ns, taskId) ==
    /\ Has(ns, taskId)
    /\ \A depId \in Get(ns, taskId).deps : isDependencyCompleted(ns, depId)

canStartTask(ns, taskId) ==
    /\ Has(ns, taskId)
    /\ Get(ns, taskId).status = "pending"
    /\ \A depId \in Get(ns, taskId).deps : isDependencyCompleted(ns, depId)

\* getAvailableTasks in reverse order
getAvailableTasks_Reversed(ns) ==
    LET avail == SelectSeq(ns, LAMBDA node : canStartTask(ns, node.id))
    IN [k \in 1..Len(avail) |-> avail[Len(avail) + 1 - k]]

getAvailableTasks(ns) == SelectSeq(ns, LAMBDA node : canStartTask(ns, node.id))

\* the completion test with < for <=
IsDue_Strict(task, now) == task.startTime + task.time < now

\* the completion test of the completion pass
IsDue(task, now) == task.startTime + task.time <= now

\* the loop guard off by one
HasSlot_OffByOne(running, limit) == Len(running) + 1 < limit

\* the guard of the admission loop
HasSlot(running, limit) == Len(running) < limit

\* hasUnfinishedTasks with the status test inverted
hasUnfinishedTasks_Inverted(ns) == \E i \in 1..Len(ns) : ns[i].status = "completed"

\* hasUnfinishedTasks with every for some
hasUnfinishedTasks_Every(ns) == \A i \in 1..Len(ns) : ns[i].status # "completed"

hasUnfinishedTasks(ns) == \E i \in 1..Len(ns) : ns[i].status # "completed"

RECURSIVE SumTimes(_)
SumTimes(ns) == IF ns = <<>> THEN 0 ELSE ns[1].time + SumTimes(Tail(ns))

TickCap(ns) == SumTimes(ns) + TickSlack

InRunning(running, taskId) == \E k \in 1..Len(running) : running[k] = taskId

\* Set.add: a member is not added twice
SetAdd(running, taskId) ==
    IF InRunning(running, taskId) THEN running ELSE Append(running, taskId)

\* ---------------------------------------------------------------- functional variant
createTaskState(task) ==
    [id |-> task.id, time |-> task.time, deps |-> task.deps,
     status |-> "pending", startTime |-> Null, endTime |-> Null]

\* new Map(tasks.map(task => [task.id, createTaskState(task)]))
RECURSIVE fp_TaskMap(_)
fp_TaskMap(ts) ==
    IF ts = <<>> THEN <<>>
    ELSE MapSet(fp_TaskMap(SubSeq(ts, 1, Len(ts) - 1)), createTaskState(ts[Len(ts)]))

initializeWorkflow(ts, limit) ==
    [tasks |-> fp_TaskMap(ts), currentTime |-> 0, runningTasks |-> <<>>,
     maxConcurrent |-> limit]

\* canStartTask of the functional variant with the dependency test dropped
fp_canStartTask_NoDeps(taskId, state) ==
    /\ Has(state.tasks, taskId)
    /\ Get(state.tasks, taskId).status = "pending"

fp_canStartTask(taskId, state) ==
    /\ Has(state.tasks, taskId)
    /\ Get(state.tasks, taskId).status = "pending"
    /\ \A depId \in Get(state.tasks, taskId).deps :
          isDependencyCompleted(state.tasks, depId)

fp_getAvailableTasks(state) ==
    SelectSeq(state.tasks, LAMBDA task : fp_canStartTask(task.id, state))

\* the forEach of updateRunningTasks from member k of state.runningTasks on,
\* with the copies built so far
RECURSIVE fp_forEachRunning(_, _, _, _, _)
fp_forEachRunning(state, k, newTasks, newRunningTasks, lines) ==
    IF k > Len(state.runningTasks)
    THEN [tasks |-> newTasks, runningTasks |-> newRunningTasks, lines |-> lines]
    ELSE LET taskId == state.runningTasks[k]
             task == Get(newTasks, taskId)
         IN IF task.startTime + task.time <= state.currentTime
            THEN fp_forEachRunning(state, k + 1,
                     MapSet(newTasks, [task EXCEPT !.status = "completed",
                                                   !.endTime = state.currentTime]),
                     SelectSeq(newRunningTasks, LAMBDA id : id # taskId),
                     Append(lines, <<"Completed", task.id, state.currentTime>>))
            ELSE fp_forEachRunning(state, k + 1, newTasks, newRunningTasks, lines)

\* the new state and the lines logged
updateRunningTasks(state) ==
    LET r == fp_forEachRunning(state, 1, state.tasks, state.runningTasks, <<>>)
    IN [state |-> [state EXCEPT !.tasks = r.tasks, !.runningTasks = r.runningTasks],
        lines |-> r.lines]

\* the while loop of startNewTasks from newState on
RECURSIVE fp_whileSlot(_, _)
fp_whileSlot(newState, lines) ==
    IF /\ Len(newState.runningTasks) < newState.maxConcurrent
       /\ fp_getAvailableTasks(newState) # <<>>
    THEN LET taskToStart == fp_getAvailableTasks(newState)[1]
         IN fp_whileSlot(
                [newState EXCEPT
                    !.tasks = MapSet(newState.tasks,
                                  [taskToStart EXCEPT !.status = "running",
                                                      !.startTime = newState.currentTime]),
                    !.runningTasks = SetAdd(newState.runningTasks, taskToStart.id)],
                Append(lines, <<"Started", taskToStart.id, newState.currentTime>>))
    ELSE [state |-> newState, lines |-> lines]

startNewTasks(state) == fp_whileSlot(state, <<>>)

fp_hasUnfinishedTasks(state) ==
    \E i \in 1..Len(state.tasks) : state.tasks[i].status # "completed"

\* [newState, shouldContinue] and the lines logged
next(state) ==
    LET updated == updateRunningTasks(state)
        started == startNewTasks(updated.state)
        newState == started.state
        lines == updated.lines \o started.lines
    IN IF Len(newState.runningTasks) > 0
       THEN [state |-> [newState EXCEPT !.currentTime = newState.currentTime + 1],
             shouldContinue |-> TRUE, lines |-> lines]
       ELSE [state |-> newState,
             shouldContinue |-> fp_hasUnfinishedTasks(newState), lines |-> lines]

\* ---------------------------------------------------------------- actions
\* new TaskQueue(ts, limit) / initializeWorkflow(ts, limit), before runAll
InitWith(ts, limit) ==
    /\ nodes = Constructor(ts)
    /\ currentTime = 0
    /\ runningTasks = <<>>
    /\ maxConcurrent = limit
    /\ pc = "next"
    /\ ticks = 0
    /\ log = <<>>
    /\ fstate = [state |-> initializeWorkflow(ts, limit), shouldContinue |-> TRUE, log |-> <<>>]

Init ==
    \/ \E n \in 0..MaxTasks : \E f \in Choices(n) :
           \E limit \in Limits(Generated(n, f)) : InitWith(Generated(n, f), limit)
    \/ \E ts \in Examples : \E limit \in Limits(ts) : InitWith(ts, limit)

\* the completion pass without runningTasks.delete
UpdateRunning_NoDelete ==
    /\ pc = "next"
    /\ LET due(taskId) == IsDue(Get(nodes, taskId), currentTime)
           finished == SelectSeq(runningTasks, due)
       IN /\ nodes' = [i \in 1..Len(nodes) |->
                          IF InRunning(runningTasks, nodes[i].id) /\ due(nodes[i].id)
                          THEN [nodes[i] EXCEPT !.status = "completed", !.endTime = currentTime]
                          ELSE nodes[i]]
          /\ runningTasks' = runningTasks
          /\ log' = log \o [k \in 1..Len(finished) |-> <<"Completed", finished[k], currentTime>>]
    /\ ticks' = IF ticks < TickCap(nodes) THEN ticks + 1 ELSE ticks
    /\ pc' = "start"
    /\ UNCHANGED <<currentTime, maxConcurrent>>

\* next(), completion pass: every member of the running set that is due is completed
UpdateRunning ==
    /\ pc = "next"
    /\ LET due(taskId) == IsDue(Get(nodes, taskId), currentTime)
           finished == SelectSeq(runningTasks, due)
       IN /\ nodes' = [i \in 1..Len(nodes) |->
                          IF InRunning(runningTasks, nodes[i].id) /\ due(nodes[i].id)
                          THEN [nodes[i] EXCEPT !.status = "completed", !.endTime = currentTime]
                          ELSE nodes[i]]
          /\ runningTasks' = SelectSeq(runningTasks, LAMBDA taskId : ~due(taskId))
          /\ log' = log \o [k \in 1..Len(finished) |-> <<"Completed", finished[k], currentTime>>]
    /\ ticks' = IF ticks < TickCap(nodes) THEN ticks + 1 ELSE ticks
    /\ pc' = "start"
    /\ UNCHANGED <<currentTime, maxConcurrent>>

\* next(), one iteration of the admission loop that starts a task
StartTask ==
    /\ pc = "start"
    /\ HasSlot(runningTasks, maxConcurrent)
    /\ getAvailableTasks(nodes) # <<>>
    /\ LET nextTask == getAvailableTasks(nodes)[1]
       IN /\ nodes' = [i \in 1..Len(nodes) |->
                          IF nodes[i].id = nextTask.id
                          THEN [nodes[i] EXCEPT !.status = "running", !.startTime = currentTime]
                          ELSE nodes[i]]
          /\ runningTasks' = SetAdd(runningTasks, nextTask.id)
          /\ log' = Append(log, <<"Started", nextTask.id, currentTime>>)
    /\ UNCHANGED <<currentTime, maxConcurrent, pc, ticks>>

\* the loop exit with the time advanced whether or not a task is running
Advance_AlwaysAdvance ==
    /\ pc = "start"
    /\ ~(HasSlot(runningTasks, maxConcurrent) /\ getAvailableTasks(nodes) # <<>>)
    /\ currentTime' = currentTime + 1
    /\ pc' = IF Len(runningTasks) > 0 \/ hasUnfinishedTasks(nodes) THEN "next" ELSE "done"
    /\ UNCHANGED <<nodes, runningTasks, maxConcurrent, ticks, log>>

\* next(), exit of the admission loop, time advance and result; runAll's loop test
Advance ==
    /\ pc = "start"
    /\ ~(HasSlot(runningTasks, maxConcurrent) /\ getAvailableTasks(nodes) # <<>>)
    /\ IF Len(runningTasks) > 0
       THEN /\ currentTime' = currentTime + 1
            /\ pc' = "next"
       ELSE /\ currentTime' = currentTime
            /\ pc' = IF hasUnfinishedTasks(nodes) THEN "next" ELSE "done"
    /\ UNCHANGED <<nodes, runningTasks, maxConcurrent, ticks, log>>

\* runAll of the functional variant: one iteration of its do-while loop
fp_runAll ==
    IF fstate.shouldContinue
    THEN LET r == next(fstate.state)
         IN fstate' = [state |-> r.state, shouldContinue |-> r.shouldContinue,
                       log |-> fstate.log \o r.lines]
    ELSE UNCHANGED fstate

\* the two variants side by side: the functional next() is called when the
\* object-oriented next() is entered
Next ==
    \/ UpdateRunning /\ fp_runAll
    \/ StartTask /\ UNCHANGED fstate
    \/ Advance /\ UNCHANGED fstate

Spec == Init /\ [][Next]_vars

\* ---------------------------------------------------------------- graph predicates
Max(S) == CHOOSE x \in S : \A y \in S : y <= x

DeclaredIds(ns) == {ns[i].id : i \in 1..Len(ns)}

\* the task descriptors a node map was built from
Input(ns) == [i \in 1..Len(ns) |-> [id |-> ns[i].id, time |-> ns[i].time, deps |-> ns[i].deps]]

HasUnknownDep(ns) == \E i \in 1..Len(ns) : ~(ns[i].deps \subseteq DeclaredIds(ns))

\* the ids that can be ordered after `placed`, looking at declared dependencies only
RECURSIVE Peel(_, _)
Peel(ns, placed) ==
    LET more == {ns[i].id : i \in {j \in 1..Len(ns) :
                     /\ ns[j].id \notin placed
                     /\ (ns[j].deps \cap DeclaredIds(ns)) \subseteq placed}}
    IN IF more = {} THEN placed ELSE Peel(ns, placed \cup more)

HasCycle(ns) == Peel(ns, {}) # DeclaredIds(ns)

PositiveTimes(ns) == \A i \in 1..Len(ns) : ns[i].time >= 1

ValidGraph(ns) == ~HasCycle(ns) /\ ~HasUnknownDep(ns)

\* earliest finish of a task of an acyclic, resolvable graph
RECURSIVE Finish(_, _)
Finish(ns, taskId) ==
    Get(ns, taskId).time + Max({Finish(ns, d) : d \in Get(ns, taskId).deps} \cup {0})

CriticalPath(ns) == Max({Finish(ns, ns[i].id) : i \in 1..Len(ns)} \cup {0})

RunningCount == Cardinality({i \in 1..Len(nodes) : nodes[i].status = "running"})

AllCompleted == \A i \in 1..Len(nodes) : nodes[i].status = "completed"

\* ---------------------------------------------------------------- valid runs
\* runs on acyclic, fully resolvable task lists with positive durations and a
\* positive limit.  next() is straight-line code and runAll calls it again as
\* long as it returns true, so a step that can be taken is taken: weak fairness
\* of its steps
ValidInput(ts, limit) == ValidGraph(ts) /\ PositiveTimes(ts) /\ limit >= 1

InitValid ==
    \/ \E n \in 0..MaxTasks : \E f \in Choices(n) :
           \E limit \in Limits(Generated(n, f)) :
               ValidInput(Generated(n, f), limit) /\ InitWith(Generated(n, f), limit)
    \/ \E ts \in Examples : \E limit \in Limits(ts) :
           ValidInput(ts, limit) /\ InitWith(ts, limit)

\* the variables of the object-oriented variant
oopVars == <<nodes, currentTime, runningTasks, maxConcurrent, pc, ticks, log>>

\* the steps of TaskQueue.runAll
OopNext == UpdateRunning \/ StartTask \/ Advance

ValidSpec == InitValid /\ [][Next]_vars /\ WF_oopVars(OopNext)

\* ---------------------------------------------------------------- claims
NodeOf(taskId) == Get(nodes, taskId)

Started(i) == nodes[i].status \in {"running", "completed"}

\* C1 (dependency safety): in every state, every dependency of a task that is
\* running or completed is a declared task that is completed, and ended no
\* later than the task started.  A step that started a task with a dependency
\* still pending or running would end in a state this excludes.
DependencySafety ==
    \A i \in 1..Len(nodes) :
        Started(i) =>
            \A d \in nodes[i].deps :
                /\ Has(nodes, d)
                /\ NodeOf(d).status = "completed"
                /\ NodeOf(d).endTime # Null
                /\ nodes[i].startTime >= NodeOf(d).endTime

\* a task with two dependencies is running: it started when the later one ended
DependencySafetyWitness ==
    \E i \in 1..Len(nodes) :
        /\ nodes[i].status = "running"
        /\ Cardinality(nodes[i].deps) = 2
        /\ \A d \in nodes[i].deps : Has(nodes, d) /\ NodeOf(d).status = "completed"
        /\ \E d \in nodes[i].deps : NodeOf(d).endTime = nodes[i].startTime
        /\ \E d \in nodes[i].deps : NodeOf(d).endTime < nodes[i].startTime

\* C2 (concurrency bound): in every state, the number of running tasks and the
\* size of the running set are at most maxConcurrent.
ConcurrencyBound ==
    /\ RunningCount <= maxConcurrent
    /\ Len(runningTasks) <= maxConcurrent

\* the bound of C2 for the limits that are not negative
ConcurrencyBoundOfValidLimit == maxConcurrent >= 0 => ConcurrencyBound

\* C3 (termination): on a valid input the run eventually stops with every task
\* completed, its start and end time set, and the running set empty.
Termination ==
    <>( /\ pc = "done"
        /\ AllCompleted
        /\ \A i \in 1..Len(nodes) : nodes[i].startTime # Null /\ nodes[i].endTime # Null
        /\ runningTasks = <<>> )

\* a run of a full-length list with a dependency has stopped
TerminationWitness ==
    /\ pc = "done"
    /\ Len(nodes) >= MaxTasks
    /\ \E i \in 1..Len(nodes) : nodes[i].deps # {}
    /\ AllCompleted

\* C4 as stated (tick bound): when the run has stopped, next() was called at
\* most (sum of the durations) times.
TickBound == pc = "done" => ticks <= SumTimes(nodes)

\* C4 amended: next() is called at most (sum of the durations) + 1 times, the
\* stopping call included, and at most (sum of the durations) calls report
\* continue.
TickBoundPlusOne ==
    /\ ticks <= SumTimes(nodes) + 1
    /\ pc = "next" => ticks <= SumTimes(nodes)

\* a sequential run has stopped after exactly (sum of the durations) + 1 calls
TickBoundWitness ==
    /\ pc = "done"
    /\ Len(nodes) >= 2
    /\ ticks = SumTimes(nodes) + 1

\* C5 (cycle detection): on a task list with a dependency cycle no tick runs:
\* next() is never called, no task starts, the time stays 0.
CycleRejected ==
    HasCycle(nodes) => ticks = 0 /\ currentTime = 0 /\ log = <<>>

\* C6 (unknown dependency): on a task list that names an undeclared dependency
\* no tick runs.
UnknownDepRejected ==
    HasUnknownDep(nodes) => ticks = 0 /\ pc = "next"

\* C7 (invalid configuration): with maxConcurrent < 1 no tick runs.
InvalidConfigRejected ==
    maxConcurrent < 1 => ticks = 0

\* C8 (reference scenario): the run of tasks_2 with maxConcurrent = 2 stops at
\* time 10 with A 0-3, B 3-5, C 3-4, D 5-9, E 9-10.
ReferenceRun == Input(nodes) = tasks_2 /\ maxConcurrent = 2

ReferenceScenario ==
    (ReferenceRun /\ pc = "done") =>
        /\ NodeOf("A").startTime = 0 /\ NodeOf("A").endTime = 3
        /\ NodeOf("B").startTime = 3 /\ NodeOf("B").endTime = 5
        /\ NodeOf("C").startTime = 3 /\ NodeOf("C").endTime = 4
        /\ NodeOf("D").startTime = 5 /\ NodeOf("D").endTime = 9
        /\ NodeOf("E").startTime = 9 /\ NodeOf("E").endTime = 10
        /\ currentTime = 10

ReferenceScenarioWitness == ReferenceRun /\ pc = "done" /\ AllCompleted

\* C9 (unlimited concurrency): on a valid input with maxConcurrent >= number
\* of tasks, every started task started at the latest end time of its
\* dependencies (0 without dependencies), and the run stops at the
\* critical-path length.
LatestDepEnd(i) == Max({NodeOf(d).endTime : d \in nodes[i].deps} \cup {0})

UnlimitedConcurrency ==
    maxConcurrent >= Len(nodes) =>
        /\ \A i \in 1..Len(nodes) : Started(i) => nodes[i].startTime = LatestDepEnd(i)
        /\ pc = "done" => currentTime = CriticalPath(nodes)

\* a run with a chain and a task beside it has stopped
UnlimitedConcurrencyWitness ==
    /\ pc = "done"
    /\ maxConcurrent >= Len(nodes)
    /\ Len(nodes) >= MaxTasks
    /\ \E i \in 1..Len(nodes) : nodes[i].deps # {} /\ nodes[i].startTime > 0
    /\ currentTime < SumTimes(nodes)

\* C10 (zero tasks): on the empty task list with maxConcurrent >= 1 the first
\* call of next() returns false, the time stays 0 and nothing is logged.
ZeroTasks ==
    (Len(nodes) = 0 /\ maxConcurrent >= 1) =>
        /\ ticks <= 1
        /\ pc = "next" => ticks = 0
        /\ currentTime = 0
        /\ log = <<>>

ZeroTasksWitness ==
    Len(nodes) = 0 /\ maxConcurrent >= 1 /\ pc = "done" /\ ticks = 1

\* C11 (monotonic status): every step leaves a task's status alone or moves it
\* from pending to running or from running to completed.
MonotonicStatus ==
    [][\A i \in 1..Len(nodes) :
          \/ nodes'[i].status = nodes[i].status
          \/ nodes[i].status = "pending" /\ nodes'[i].status = "running"
          \/ nodes[i].status = "running" /\ nodes'[i].status = "completed"]_vars

\* a task has gone through all three statuses and another one is still pending
MonotonicStatusWitness ==
    /\ \E i \in 1..Len(nodes) : nodes[i].status = "completed"
    /\ \E i \in 1..Len(nodes) : nodes[i].status = "running"
    /\ \E i \in 1..Len(nodes) : nodes[i].status = "pending"

\* task i is ready: pending with every dependency completed
Ready(i) ==
    /\ nodes[i].status = "pending"
    /\ \A d \in nodes[i].deps : Has(nodes, d) /\ NodeOf(d).status = "completed"

\* C12 (deterministic tie-break): a step that starts a task starts a ready
\* task, and no task declared before it is ready at that moment.
TieBreak ==
    [][\A j \in 1..Len(nodes) :
          (nodes[j].status = "pending" /\ nodes'[j].status = "running") =>
              /\ Ready(j)
              /\ \A i \in 1..(j - 1) : ~Ready(i)]_vars

\* the limit is reached while a later declared ready task is left pending, and
\* the task that was started is declared before it and takes longer
TieBreakWitness ==
    /\ pc = "start"
    /\ Len(runningTasks) = maxConcurrent
    /\ \E i \in 1..Len(nodes) : \E j \in 1..Len(nodes) :
          /\ i < j
          /\ nodes[i].status = "running" /\ nodes[i].startTime = currentTime
          /\ Ready(j)
          /\ nodes[i].time > nodes[j].time

\* the admission loop of the current tick has ended (the guard of Advance)
AdmissionDone ==
    /\ pc = "start"
    /\ ~(HasSlot(runningTasks, maxConcurrent) /\ getAvailableTasks(nodes) # <<>>)

\* the tasks that were running when the current tick began: started at an
\* earlier time and not completed before this tick
RunningAtTickStart ==
    {i \in 1..Len(nodes) :
        /\ nodes[i].startTime # Null
        /\ nodes[i].startTime < currentTime
        /\ \/ nodes[i].status = "running"
           \/ nodes[i].status = "completed" /\ nodes[i].endTime = currentTime}

\* those of them that reach start time + duration at the current time
DueAtTickStart ==
    {i \in RunningAtTickStart : nodes[i].startTime + nodes[i].time = currentTime}

\* the tasks that were pending when the current tick began and are ready once
\* the due tasks are completed
ReadyAfterCompletion ==
    {j \in 1..Len(nodes) :
        /\ nodes[j].status = "pending" \/ nodes[j].startTime = currentTime
        /\ \A d \in nodes[j].deps :
              /\ Has(nodes, d)
              /\ \/ NodeOf(d).status = "completed"
                 \/ \E i \in DueAtTickStart : nodes[i].id = d}

ExactOccupancy ==
    \A i \in 1..Len(nodes) :
        (nodes[i].time >= 1 /\ nodes[i].startTime # Null) =>
            /\ currentTime < nodes[i].startTime + nodes[i].time => nodes[i].status = "running"
            /\ nodes[i].status = "running" => currentTime <= nodes[i].startTime + nodes[i].time
            /\ (nodes[i].status = "running" /\ pc = "start") =>
                   currentTime < nodes[i].startTime + nodes[i].time
            /\ nodes[i].status = "completed" =>
                   nodes[i].endTime = nodes[i].startTime + nodes[i].time

\* at a tick boundary one task of duration 2 is half way and another one was
\* completed on time
ExactOccupancyWitness ==
    /\ pc = "next"
    /\ \E i \in 1..Len(nodes) :
          /\ nodes[i].time >= 2 /\ nodes[i].status = "running"
          /\ currentTime = nodes[i].startTime + 1
    /\ \E j \in 1..Len(nodes) :
          /\ nodes[j].time >= 2 /\ nodes[j].status = "completed"
          /\ nodes[j].endTime = nodes[j].startTime + nodes[j].time

\* C15 (no stall on valid input): on a valid input, when the admission loop
\* has ended with an empty running set every task is completed, and a tick
\* that reports continue has advanced the time.
NoStall ==
    /\ [](AdmissionDone /\ Len(runningTasks) = 0 => AllCompleted)
    /\ [][(pc = "start" /\ pc' = "next") => currentTime' = currentTime + 1]_vars

\* the last tick of a run of several tasks ends with an empty running set
NoStallWitness ==
    /\ AdmissionDone
    /\ Len(runningTasks) = 0
    /\ Len(nodes) >= 2
    /\ AllCompleted

\* C16 (greedy admission): when the admission loop has ended, the running set
\* has exactly maxConcurrent members or no pending task is ready.
GreedyAdmission ==
    AdmissionDone =>
        \/ Len(runningTasks) = maxConcurrent
        \/ \A i \in 1..Len(nodes) : ~Ready(i)

\* the statement of C16 for the limits that are not negative
GreedyAdmissionOfValidLimit == maxConcurrent >= 0 => GreedyAdmission

LatestEnd == Max({nodes[i].endTime : i \in 1..Len(nodes)} \cup {0})

\* C17 (time advance rule): the time starts at 0; the step that ends a tick
\* adds exactly 1 to it when the running set is not empty and no other step
\* changes it; when the run has stopped it is the largest end time (0 without
\* tasks).
TimeAdvance ==
    /\ [](ticks = 0 => currentTime = 0)
    /\ [](pc = "done" => currentTime = LatestEnd)
    /\ [][currentTime' = IF AdmissionDone /\ Len(runningTasks) > 0
                         THEN currentTime + 1
                         ELSE currentTime]_vars

\* a run of several tasks has stopped after the time advanced
TimeAdvanceWitness ==
    /\ pc = "done"
    /\ Len(nodes) >= 2
    /\ currentTime >= 2
    /\ currentTime = LatestEnd

\* C18 (timestamps track status): the start time is unset exactly for pending
\* tasks and the end time is set exactly for completed tasks; each is written
\* once, with the current time, by the step that makes the task running or
\* completed, and is never changed afterwards.
TimestampsTrackStatus ==
    /\ [](\A i \in 1..Len(nodes) :
             /\ nodes[i].startTime = Null <=> nodes[i].status = "pending"
             /\ nodes[i].endTime # Null <=> nodes[i].status = "completed")
    /\ [][\A i \in 1..Len(nodes) :
             /\ nodes[i].startTime # Null => nodes'[i].startTime = nodes[i].startTime
             /\ (nodes[i].startTime = Null /\ nodes'[i].startTime # Null) =>
                    /\ nodes'[i].startTime = currentTime
                    /\ nodes'[i].status = "running"
             /\ nodes[i].endTime # Null => nodes'[i].endTime = nodes[i].endTime
             /\ (nodes[i].endTime = Null /\ nodes'[i].endTime # Null) =>
                    /\ nodes'[i].endTime = currentTime
                    /\ nodes'[i].status = "completed"]_vars

\* one task has both timestamps, one only its start time, one none
TimestampsTrackStatusWitness ==
    /\ \E i \in 1..Len(nodes) :
          nodes[i].status = "completed" /\ nodes[i].endTime > nodes[i].startTime
    /\ \E i \in 1..Len(nodes) :
          nodes[i].status = "running" /\ nodes[i].startTime > 0 /\ nodes[i].endTime = Null
    /\ \E i \in 1..Len(nodes) :
          nodes[i].status = "pending" /\ nodes[i].startTime = Null /\ nodes[i].endTime = Null

\* C19 (running set consistency): in every state the members of the running
\* set are exactly the ids of the tasks whose status is running.
RunningSetConsistency ==
    /\ {runningTasks[k] : k \in 1..Len(runningTasks)} =
           {nodes[i].id : i \in {j \in 1..Len(nodes) : nodes[j].status = "running"}}
    /\ Cardinality({runningTasks[k] : k \in 1..Len(runningTasks)}) = Len(runningTasks)

\* after a completion pass that removed a task, two tasks are in the running set
RunningSetConsistencyWitness ==
    /\ pc = "start"
    /\ Len(runningTasks) >= 2
    /\ \E i \in 1..Len(nodes) :
          nodes[i].status = "completed" /\ nodes[i].endTime = currentTime

\* C20 (variant equivalence): after every tick the functional variant and the
\* object-oriented variant have the same current time, the same status, start
\* time and end time of every task, the same running set, the same
\* continue/stop result and the same sequence of logged events.
VariantEquivalence ==
    pc \in {"next", "done"} =>
        /\ fstate.state.currentTime = currentTime
        /\ fstate.state.tasks = nodes
        /\ {fstate.state.runningTasks[k] : k \in 1..Len(fstate.state.runningTasks)} =
               {runningTasks[k] : k \in 1..Len(runningTasks)}
        /\ fstate.state.maxConcurrent = maxConcurrent
        /\ fstate.shouldContinue = (pc = "next")
        /\ fstate.log = log

\* both variants have stopped after logging the start and the completion of
\* several tasks
VariantEquivalenceWitness ==
    /\ pc = "done"
    /\ ~fstate.shouldContinue
    /\ Len(log) >= 4
    /\ fstate.log = log
    /\ currentTime >= 2

====
